---- MODULE Spec2Model ----
(***************************************************************************)
(* Rustite: a fluent query layer over one SQLite connection.               *)
(*                                                                         *)
(* The module models                                                       *)
(*   - the text operations the SQL compiler uses (split, trim, uppercase,  *)
(*     decimal printing), on TLA+ strings, character by character;         *)
(*   - FilteredTable (src/src/filtered_table.rs) and the older monolithic  *)
(*     variant of it that coexists in src/src/lib.rs (names Lib...);       *)
(*   - Table, Database and the mutex-guarded connection, with concurrent   *)
(*     callers (src/src/table.rs, src/src/database.rs, src/src/extra.rs).  *)
(*                                                                         *)
(* SpecChain explores chain construction and SQL compilation; Spec         *)
(* explores the operations that run against the connection.                *)
(***************************************************************************)
EXTENDS Integers, Sequences, FiniteSets, TLC

VARIABLES
  recv,      \* SpecChain: the chain object the last method was called on (after the call)
  ret,       \* SpecChain: what the last method returned
  call,      \* SpecChain: the last method called, with its arguments
  rows,      \* Spec: the rows of the table as the connection sees them, in rowid order
  tx,        \* Spec: the open transaction (the rows it rolls back to), or None
  lock,      \* Spec: the caller that holds the connection's mutex, or Free
  poisoned,  \* Spec: whether a holder of the mutex panicked while holding it
  pc,        \* Spec: where each caller is: idle, wait (in lock()), held, tx
  inflight,  \* Spec: the call each caller is in
  returned,  \* Spec: the call that has just returned, in the state its return reaches
  prev       \* SpecSeq: the call that returned before the call under way or just returned

chainVars == <<recv, ret, call>>
dbVars == <<rows, tx, lock, poisoned, pc, inflight, returned, prev>>
vars == <<recv, ret, call, rows, tx, lock, poisoned, pc, inflight, returned, prev>>

---------------------------------------------------------------------------
(* Text: Rust's String / &str operations used by the compiler.             *)

Char(s, i) == SubSeq(s, i, i)

\* str::ends_with
EndsWith(s, suf) ==
  /\ Len(s) >= Len(suf)
  /\ SubSeq(s, Len(s) - Len(suf) + 1, Len(s)) = suf

\* String::truncate(new_len)
Truncate(s, n) == IF n >= Len(s) THEN s ELSE SubSeq(s, 1, n)

\* str::trim_end_matches(pat): pat removed from the end repeatedly
RECURSIVE TrimEndMatches(_, _)
TrimEndMatches(s, pat) ==
  IF Len(pat) > 0 /\ EndsWith(s, pat)
  THEN TrimEndMatches(SubSeq(s, 1, Len(s) - Len(pat)), pat)
  ELSE s

\* str::split(sep) for a one-character separator, collected
RECURSIVE Split(_, _)
Split(s, sep) ==
  IF \E i \in 1..Len(s) : Char(s, i) = sep
  THEN LET i == CHOOSE k \in 1..Len(s) :
                  /\ Char(s, k) = sep
                  /\ \A j \in 1..(k - 1) : Char(s, j) # sep
       IN  <<SubSeq(s, 1, i - 1)>> \o Split(SubSeq(s, i + 1, Len(s)), sep)
  ELSE <<s>>

WhiteSpace == {" ", "\t", "\n", "\r"}

\* str::trim
RECURSIVE Trim(_)
Trim(s) ==
  IF Len(s) = 0 THEN s
  ELSE IF Char(s, 1) \in WhiteSpace THEN Trim(SubSeq(s, 2, Len(s)))
  ELSE IF Char(s, Len(s)) \in WhiteSpace THEN Trim(SubSeq(s, 1, Len(s) - 1))
  ELSE s

LowerAlpha == "abcdefghijklmnopqrstuvwxyz"
UpperAlpha == "ABCDEFGHIJKLMNOPQRSTUVWXYZ"

UpperChar(c) ==
  IF \E i \in 1..Len(LowerAlpha) : Char(LowerAlpha, i) = c
  THEN Char(UpperAlpha, CHOOSE i \in 1..Len(LowerAlpha) : Char(LowerAlpha, i) = c)
  ELSE c

\* str::to_uppercase (ASCII letters)
RECURSIVE ToUppercase(_)
ToUppercase(s) ==
  IF Len(s) = 0 THEN s
  ELSE UpperChar(Char(s, 1)) \o ToUppercase(SubSeq(s, 2, Len(s)))

Digits == "0123456789"

RECURSIVE NatToString(_)
NatToString(n) ==
  IF n < 10 THEN Char(Digits, n + 1)
  ELSE NatToString(n \div 10) \o Char(Digits, (n % 10) + 1)

\* i64::to_string
IntToString(i) == IF i < 0 THEN "-" \o NatToString(0 - i) ELSE NatToString(i)

\* [String]::join(sep)
RECURSIVE Join(_, _)
Join(items, sep) ==
  IF Len(items) = 0 THEN ""
  ELSE IF Len(items) = 1 THEN items[1]
  ELSE items[1] \o sep \o Join(Tail(items), sep)

\* the number of occurrences of the character c in s
RECURSIVE CountChar(_, _)
CountChar(s, c) ==
  IF Len(s) = 0 THEN 0
  ELSE (IF Char(s, 1) = c THEN 1 ELSE 0) + CountChar(SubSeq(s, 2, Len(s)), c)

---------------------------------------------------------------------------
(* Values.                                                                 *)

\* napi::Either<String, i64>: a filter value
EitherA(s) == [t |-> "A", s |-> s, i |-> 0]
EitherB(i) == [t |-> "B", s |-> "", i |-> i]

\* rusqlite::types::Value; a Real is i + f/10
SqlNull == [tag |-> "Null", s |-> "", i |-> 0, f |-> 0]
SqlInteger(i) == [tag |-> "Integer", s |-> "", i |-> i, f |-> 0]
SqlReal(i, f) == [tag |-> "Real", s |-> "", i |-> i, f |-> f]
SqlText(s) == [tag |-> "Text", s |-> s, i |-> 0, f |-> 0]

\* a JavaScript value as napi sees it (ValueType); a Number is i + f/10
JsString(s) == [t |-> "String", s |-> s, i |-> 0, f |-> 0]
JsNumber(i, f) == [t |-> "Number", s |-> "", i |-> i, f |-> f]
JsBoolean(b) == [t |-> "Boolean", s |-> "", i |-> (IF b THEN 1 ELSE 0), f |-> 0]
JsNull == [t |-> "Null", s |-> "", i |-> 0, f |-> 0]
JsUndefined == [t |-> "Undefined", s |-> "", i |-> 0, f |-> 0]
JsObject(json) == [t |-> "Object", s |-> json, i |-> 0, f |-> 0]
JsFunction == [t |-> "Function", s |-> "", i |-> 0, f |-> 0]

\* Option<T>
None == <<>>
Some(x) == <<x>>
IsSome(o) == Len(o) = 1
Unwrap(o) == o[1]

\* Result<T>
Ok(v) == [ok |-> TRUE, v |-> v, reason |-> ""]
Err(reason) == [ok |-> FALSE, v |-> <<>>, reason |-> reason]

---------------------------------------------------------------------------
(* FilteredTable: the predicate chain (src/src/filtered_table.rs).         *)

\* struct FilteredTable; table is the Table's name, a condition is <<column, operator, value>>
FilteredTable(table, column, operator, value, extra, order) ==
  [table |-> table, column |-> column, operator |-> operator, value |-> value,
   extra_conditions |-> extra, order_by |-> order]

\* napi's conversion of the second argument of where to
\* Either<String, Either<String, i64>>: a JavaScript string is taken as the first
\* alternative, a number as the i64 of the second
OpOrValueA(s) == [t |-> "A", s |-> s, v |-> EitherB(0)]
OpOrValueB(v) == [t |-> "B", s |-> "", v |-> v]
FromNapiOpOrValue(js) ==
  IF js.t = "String" THEN OpOrValueA(js.s) ELSE OpOrValueB(EitherB(js.i))

\* napi's conversion of a JavaScript value to Either<String, i64>
FromNapiEither(js) == IF js.t = "String" THEN EitherA(js.s) ELSE EitherB(js.i)

\* napi's conversion of the optional third argument: undefined and null are None
FromNapiValueOpt(js) ==
  IF js.t \in {"Undefined", "Null"} THEN None ELSE Some(FromNapiEither(js))

\* the (operator, value) pair where_ derives from its arguments, or the error
WhereArgs(op_or_value, value_opt) ==
  IF IsSome(value_opt)
  THEN Ok(<<IF op_or_value.t = "A" THEN op_or_value.s ELSE "=", Unwrap(value_opt)>>)
  ELSE IF op_or_value.t = "B"
       THEN Ok(<<"=", op_or_value.v>>)
       ELSE Err("Invalid arguments for where")

\* where_ that forgets to keep the receiver's head among the extra conditions
where_drops_head(self, column, op_or_value, value_opt) ==
  LET a == WhereArgs(op_or_value, value_opt)
  IN  IF a.ok
      THEN Ok(FilteredTable(self.table, column, a.v[1], a.v[2], self.extra_conditions, None))
      ELSE Err(a.reason)

\* where_ that hands the receiver's ordering on to the chain it returns
where_keeps_order(self, column, op_or_value, value_opt) ==
  LET a == WhereArgs(op_or_value, value_opt)
      extra == Append(self.extra_conditions, <<self.column, self.operator, self.value>>)
  IN  IF a.ok
      THEN Ok(FilteredTable(self.table, column, a.v[1], a.v[2], extra, self.order_by))
      ELSE Err(a.reason)

\* FilteredTable::where_
where_(self, column, op_or_value, value_opt) ==
  LET a == WhereArgs(op_or_value, value_opt)
      extra == Append(self.extra_conditions, <<self.column, self.operator, self.value>>)
  IN  IF a.ok
      THEN Ok(FilteredTable(self.table, column, a.v[1], a.v[2], extra, None))
      ELSE Err(a.reason)

\* Table::where_
Table_where_(name, column, op_or_value, value_opt) ==
  LET a == WhereArgs(op_or_value, value_opt)
  IN  IF a.ok
      THEN Ok(FilteredTable(name, column, a.v[1], a.v[2], <<>>, None))
      ELSE Err(a.reason)

\* order_by that keeps the direction the receiver has when none is given
order_by_keeps_direction(self, column, direction) ==
  [self EXCEPT !.order_by =
     Some(<<column, IF IsSome(direction) THEN Unwrap(direction)
                    ELSE IF IsSome(self.order_by) THEN Unwrap(self.order_by)[2]
                    ELSE "ASC">>)]

\* FilteredTable::order_by: the receiver after the call (the returned value is a clone of it)
order_by(self, column, direction) ==
  [self EXCEPT !.order_by =
     Some(<<column, IF IsSome(direction) THEN Unwrap(direction) ELSE "ASC">>)]

\* Table::order_by
Table_order_by(name, column, direction) ==
  FilteredTable(name, "1", "=", EitherB(1), <<>>,
                Some(<<column, IF IsSome(direction) THEN Unwrap(direction) ELSE "ASC">>))

\* the operator classes of append_condition's match on op.to_uppercase()
IsNullTest(op) == ToUppercase(op) \in {"IS NULL", "IS NOT NULL"}
IsIn(op) == ToUppercase(op) = "IN"

\* the value of an IN condition as text
InText(val) == IF val.t = "A" THEN val.s ELSE IntToString(val.i)

\* the comma-separated segments as they are, with their surrounding whitespace
InItemsUntrimmed(val) == Split(InText(val), ",")

\* the trimmed comma-separated segments of an IN condition's value
InItems(val) ==
  LET parts == Split(InText(val), ",")
  IN  [k \in 1..Len(parts) |-> Trim(parts[k])]

\* the closure append_condition of build_conditions: one condition pushed on (sql, params)
append_condition(acc, col, op, val) ==
  IF IsNullTest(op)
  THEN [sql |-> acc.sql \o col \o " " \o op \o " AND ", params |-> acc.params]
  ELSE IF IsIn(op)
  THEN LET items == InItems(val)
       IN  [sql |-> acc.sql \o col \o " IN ("
                      \o Join([k \in 1..Len(items) |-> "?"], ", ") \o ") AND ",
            params |-> acc.params \o [k \in 1..Len(items) |-> SqlText(items[k])]]
  ELSE [sql |-> acc.sql \o col \o " " \o op \o " ? AND ",
        params |-> Append(acc.params,
                          IF val.t = "A" THEN SqlText(val.s) ELSE SqlInteger(val.i))]

\* the conditions of a chain in the order build_conditions renders them: the head first
Conditions(self) ==
  <<<<self.column, self.operator, self.value>>>> \o self.extra_conditions

RECURSIVE AppendAll(_, _)
AppendAll(acc, conds) ==
  IF Len(conds) = 0 THEN acc
  ELSE AppendAll(append_condition(acc, conds[1][1], conds[1][2], conds[1][3]), Tail(conds))

\* build_conditions without the removal of the trailing separator
build_conditions_keeps_separator(self, acc) == AppendAll(acc, Conditions(self))

\* FilteredTable::build_conditions on (sql, params)
build_conditions(self, acc) ==
  LET r == AppendAll(acc, Conditions(self))
  IN  IF EndsWith(r.sql, " AND ")
      THEN [r EXCEPT !.sql = Truncate(r.sql, Len(r.sql) - 5)]
      ELSE r

\* the ORDER BY suffix all() appends
OrderSuffix(self) ==
  IF IsSome(self.order_by)
  THEN " ORDER BY " \o Unwrap(self.order_by)[1] \o " " \o Unwrap(self.order_by)[2]
  ELSE ""

\* the statement FilteredTable::all prepares
AllStmt(self) ==
  LET r == build_conditions(self, [sql |-> "SELECT * FROM " \o self.table \o " WHERE ",
                                   params |-> <<>>])
  IN  [r EXCEPT !.sql = r.sql \o OrderSuffix(self)]

\* the chain first() and last() run all() on: the order forced on a clone
Forced(self, dir) ==
  [self EXCEPT !.order_by =
     Some(<<IF IsSome(self.order_by) THEN Unwrap(self.order_by)[1] ELSE "rowid", dir>>)]

FirstStmt(self) == AllStmt(Forced(self, "ASC"))
LastStmt(self) == AllStmt(Forced(self, "DESC"))

\* the statement FilteredTable::destroy executes
DestroyStmt(self) ==
  build_conditions(self, [sql |-> "DELETE FROM " \o self.table \o " WHERE ",
                          params |-> <<>>])

\* the value FilteredTable::update binds for one payload value, or the error
UpdateValue(js) ==
  IF js.t = "String" THEN Ok(SqlText(js.s))
  ELSE IF js.t = "Number" THEN Ok(SqlReal(js.i, js.f))
  ELSE IF js.t = "Boolean" THEN Ok(SqlInteger(js.i))
  ELSE Err("Unsupported value type in update")

\* the statement FilteredTable::update executes for a payload <<key, value>>, ...,
\* or the error of its first unsupported value
UpdateStmt(self, data) ==
  IF \E k \in 1..Len(data) : ~UpdateValue(data[k][2]).ok
  THEN Err("Unsupported value type in update")
  ELSE LET set_clause == Join([k \in 1..Len(data) |-> data[k][1] \o " = ?"], ", ")
           values == [k \in 1..Len(data) |-> UpdateValue(data[k][2]).v]
           w == build_conditions(self,
                  [sql |-> "UPDATE " \o self.table \o " SET " \o set_clause \o " WHERE ",
                   params |-> <<>>])
       IN  Ok([sql |-> w.sql, params |-> values \o w.params,
               nset |-> Len(values)])

---------------------------------------------------------------------------
(* The monolithic variant of FilteredTable that coexists in src/src/lib.rs. *)

\* lib.rs FilteredTable::build_conditions: the same rendering, the trailing separator
\* removed with trim_end_matches
LibBuildConditions(self, acc) ==
  LET r == AppendAll(acc, Conditions(self))
  IN  [r EXCEPT !.sql = Truncate(r.sql, Len(TrimEndMatches(r.sql, " AND ")))]

\* the statement lib.rs FilteredTable::all prepares
LibAllStmt(self) ==
  LET r == LibBuildConditions(self, [sql |-> "SELECT * FROM " \o self.table \o " WHERE ",
                                     params |-> <<>>])
  IN  [r EXCEPT !.sql = r.sql \o OrderSuffix(self)]

\* the statement lib.rs FilteredTable::destroy executes
LibDestroyStmt(self) ==
  LibBuildConditions(self, [sql |-> "DELETE FROM " \o self.table \o " WHERE ",
                            params |-> <<>>])

\* f64's Display, for i + f/10
DoubleToString(i, f) ==
  IF f = 0 THEN IntToString(i) ELSE IntToString(i) \o "." \o NatToString(f)

\* the SQL literal lib.rs FilteredTable::update writes for one payload value
LibUpdateValue(js) ==
  IF js.t = "String" THEN Ok("'" \o js.s \o "'")
  ELSE IF js.t = "Number" THEN Ok(DoubleToString(js.i, js.f))
  ELSE IF js.t = "Boolean" THEN Ok(IntToString(js.i))
  ELSE Err("Unsupported value type in update")

\* the filter value of a condition as lib.rs update binds it
LibParam(val) == IF val.t = "A" THEN SqlText(val.s) ELSE SqlInteger(val.i)

\* the statement lib.rs FilteredTable::update executes: every condition is rendered
\* as "col op ?" and binds its value
LibUpdateStmt(self, data) ==
  IF \E k \in 1..Len(data) : ~LibUpdateValue(data[k][2]).ok
  THEN Err("Unsupported value type in update")
  ELSE LET set_clause ==
             Join([k \in 1..Len(data) |->
                     data[k][1] \o " = " \o LibUpdateValue(data[k][2]).v], ", ")
           ex == self.extra_conditions
           where_clause ==
             self.column \o " " \o self.operator \o " ?"
               \o Join([k \in 1..Len(ex) |-> " AND " \o ex[k][1] \o " " \o ex[k][2] \o " ?"], "")
       IN  Ok([sql |-> "UPDATE " \o self.table \o " SET " \o set_clause
                          \o " WHERE " \o where_clause,
               params |-> <<LibParam(self.value)>>
                            \o [k \in 1..Len(ex) |-> LibParam(ex[k][3])],
               nset |-> 0])

---------------------------------------------------------------------------
(* SpecChain: chains built from one Table and compiled, without a database. *)

MaxConds == 3    \* the conditions of a chain: its head and its extra conditions

TableName == "users"
\* the argument lists (column, second argument, third argument) callers pass to where
WhereCalls ==
  { <<"age", JsString(">"), JsNumber(18, 0)>>,
    <<"name", JsString("IN"), JsString("ann,bob")>>,
    <<"name", JsString("is null"), JsString("")>>,
    <<"age", JsNumber(18, 0), JsUndefined>>,
    <<"name", JsString("ann"), JsUndefined>>,
    <<"age", JsNumber(7, 0), JsNumber(18, 0)>> }
OrderColumns == {"id"}
OrderDirections == {None, Some("DESC")}
UpdatePayloads ==
  { <<<<"age", JsNumber(3, 0)>>>>,
    <<<<"name", JsString("a")>>, <<"ratio", JsNumber(1, 5)>>, <<"flag", JsBoolean(TRUE)>>>>,
    <<<<"age", JsNumber(3, 0)>>, <<"name", JsNull>>>> }

NoChain == [table |-> "", column |-> "", operator |-> "", value |-> EitherB(0),
            extra_conditions |-> <<>>, order_by |-> None]
NoStmt == [sql |-> "", params |-> <<>>]
NoData == <<>>

\* what a method returned: a chain (where, order_by), a compiled statement, or an error
RetNone == [kind |-> "none", chain |-> NoChain, stmt |-> NoStmt, reason |-> ""]
RetChain(c) == [kind |-> "chain", chain |-> c, stmt |-> NoStmt, reason |-> ""]
RetStmt(st) ==
  [kind |-> "stmt", chain |-> NoChain, stmt |-> [sql |-> st.sql, params |-> st.params],
   reason |-> ""]
RetErr(reason) == [kind |-> "error", chain |-> NoChain, stmt |-> NoStmt, reason |-> reason]
RetOfChain(r) == IF r.ok THEN RetChain(r.v) ELSE RetErr(r.reason)
RetOfStmt(r) == IF r.ok THEN RetStmt(r.v) ELSE RetErr(r.reason)

\* a call: the method, the receiver as it was before the call (None on a Table), the
\* arguments of where and order_by, the payload of update
CalledOn(m, self, args, data) == [m |-> m, self |-> self, args |-> args, data |-> data]
Called(m, data) == CalledOn(m, None, <<>>, data)

\* the chains the caller holds: the receiver of the last call and the chain it returned
Alive ==
  (IF IsSome(recv) THEN {Unwrap(recv)} ELSE {})
    \cup (IF ret.kind = "chain" THEN {ret.chain} ELSE {})

NConds(c) == 1 + Len(c.extra_conditions)

InitChain ==
  /\ recv = None
  /\ ret = RetNone
  /\ call = Called("table", NoData)

\* table.where(column, arg2, arg3)
TableWhere ==
  \E w \in WhereCalls :
    /\ recv' = None
    /\ ret' = RetOfChain(Table_where_(TableName, w[1], FromNapiOpOrValue(w[2]),
                                      FromNapiValueOpt(w[3])))
    /\ call' = CalledOn("Table.where", None, w, NoData)
    /\ UNCHANGED dbVars

\* table.order_by(column, direction)
TableOrderBy ==
  \E column \in OrderColumns, direction \in OrderDirections :
    /\ recv' = None
    /\ ret' = RetChain(Table_order_by(TableName, column, direction))
    /\ call' = CalledOn("Table.order_by", None, <<column, direction>>, NoData)
    /\ UNCHANGED dbVars

\* chain.where(column, arg2, arg3): the receiver is left as it is
Where ==
  \E c \in Alive, w \in WhereCalls :
    /\ NConds(c) < MaxConds
    /\ recv' = Some(c)
    /\ ret' = RetOfChain(where_(c, w[1], FromNapiOpOrValue(w[2]), FromNapiValueOpt(w[3])))
    /\ call' = CalledOn("where", Some(c), w, NoData)
    /\ UNCHANGED dbVars

\* chain.order_by(column, direction): the receiver is changed, its clone returned
OrderBy ==
  \E c \in Alive, column \in OrderColumns, direction \in OrderDirections :
    /\ recv' = Some(order_by(c, column, direction))
    /\ ret' = RetChain(order_by(c, column, direction))
    /\ call' = CalledOn("order_by", Some(c), <<column, direction>>, NoData)
    /\ UNCHANGED dbVars

\* the statement a terminal method of the chain compiles, by method
Compiled(m, c, data) ==
  CASE m = "all" -> Ok(AllStmt(c))
    [] m = "first" -> Ok(FirstStmt(c))
    [] m = "last" -> Ok(LastStmt(c))
    [] m = "destroy" -> Ok(DestroyStmt(c))
    [] m = "update" -> UpdateStmt(c, data)
    [] m = "lib.all" -> Ok(LibAllStmt(c))
    [] m = "lib.destroy" -> Ok(LibDestroyStmt(c))
    [] m = "lib.update" -> LibUpdateStmt(c, data)

ReadMethods == {"all", "first", "last", "destroy", "lib.all", "lib.destroy"}
UpdateMethods == {"update", "lib.update"}

\* chain.all(), first(), last(), destroy(): the statement the method compiles
Compile ==
  \E c \in Alive, m \in ReadMethods :
    /\ recv' = Some(c)
    /\ ret' = RetOfStmt(Compiled(m, c, NoData))
    /\ call' = CalledOn(m, Some(c), <<>>, NoData)
    /\ UNCHANGED dbVars

\* chain.update(data): the statement the method compiles
CompileUpdate ==
  \E c \in Alive, m \in UpdateMethods, data \in UpdatePayloads :
    /\ recv' = Some(c)
    /\ ret' = RetOfStmt(Compiled(m, c, data))
    /\ call' = CalledOn(m, Some(c), <<>>, data)
    /\ UNCHANGED dbVars

NextChain == TableWhere \/ TableOrderBy \/ Where \/ OrderBy \/ Compile \/ CompileUpdate

---------------------------------------------------------------------------
(* Compilation properties (SpecChain).                                     *)

\* the WHERE clause and parameters of a chain, compiled on their own
WhereOf(c) == build_conditions(c, [sql |-> "", params |-> <<>>])

\* the rendered fragment and parameters of one condition
Fragment(cond) ==
  WhereOf(FilteredTable(TableName, cond[1], cond[2], cond[3], <<>>, None))

RECURSIVE Concat(_)
Concat(seqs) == IF Len(seqs) = 0 THEN <<>> ELSE seqs[1] \o Concat(Tail(seqs))

\* the chain of the scenario:
\* table("users").where("age", ">", 18).where("name", "IN", "ann,bob").order_by("id")
ScenarioChain ==
  order_by(
    where_(Table_where_("users", "age", FromNapiOpOrValue(JsString(">")),
                        FromNapiValueOpt(JsNumber(18, 0))).v,
           "name", FromNapiOpOrValue(JsString("IN")),
           FromNapiValueOpt(JsString("ann,bob"))).v,
    "id", None)

\* C1 as stated: all() on the scenario chain compiles to
\* SELECT * FROM users WHERE age > ? AND name IN (?, ?) ORDER BY id ASC
\* with the parameters [Integer 18, Text "ann", Text "bob"]
C1_AsStated ==
  (call.m = "all" /\ recv = Some(ScenarioChain)) =>
    /\ ret.kind = "stmt"
    /\ ret.stmt.sql = "SELECT * FROM users WHERE age > ? AND name IN (?, ?) ORDER BY id ASC"
    /\ ret.stmt.params = <<SqlInteger(18), SqlText("ann"), SqlText("bob")>>

\* C1 amended: all() on the scenario chain renders the newest condition first:
\* SELECT * FROM users WHERE name IN (?, ?) AND age > ? ORDER BY id ASC
\* with the parameters [Text "ann", Text "bob", Integer 18]
C1_ScenarioSql ==
  (call.m = "all" /\ recv = Some(ScenarioChain)) =>
    /\ ret.kind = "stmt"
    /\ ret.stmt.sql = "SELECT * FROM users WHERE name IN (?, ?) AND age > ? ORDER BY id ASC"
    /\ ret.stmt.params = <<SqlText("ann"), SqlText("bob"), SqlInteger(18)>>

\* all() on the scenario chain has compiled its statement
C1_Witness ==
  /\ call.m = "all"
  /\ recv = Some(ScenarioChain)
  /\ ret.kind = "stmt"
  /\ Len(ret.stmt.params) = 3

\* C2 as stated: after where on C returns C', the WHERE clause of C' is the clause of C
\* and the new fragment joined by " AND " (in either order), and the parameters of C'
\* are those of C and of the new condition in the same order
C2_AsStated ==
  (call.m = "where" /\ ret.kind = "chain") =>
    LET w == WhereOf(Unwrap(recv))
        w2 == WhereOf(ret.chain)
        f == Fragment(<<ret.chain.column, ret.chain.operator, ret.chain.value>>)
    IN  \/ /\ w2.sql = w.sql \o " AND " \o f.sql
           /\ w2.params = w.params \o f.params
        \/ /\ w2.sql = f.sql \o " AND " \o w.sql
           /\ w2.params = f.params \o w.params

\* C2 amended: after where on C returns C', the clause of C is the fragment of C's head
\* followed by the fragments of C's extra conditions, and the clause of C' is the new
\* fragment, then the fragments of C's extra conditions, then the fragment of C's head,
\* all joined by " AND "; the parameters follow the order of the fragments
C2_WhereRotates ==
  (call.m = "where" /\ ret.kind = "chain") =>
    LET C == Unwrap(recv)
        h == Fragment(<<C.column, C.operator, C.value>>)
        e == [k \in 1..Len(C.extra_conditions) |-> Fragment(C.extra_conditions[k])]
        f == Fragment(<<ret.chain.column, ret.chain.operator, ret.chain.value>>)
        old == <<h>> \o e
        new == <<f>> \o e \o <<h>>
    IN  /\ WhereOf(C).sql = Join([k \in 1..Len(old) |-> old[k].sql], " AND ")
        /\ WhereOf(C).params = Concat([k \in 1..Len(old) |-> old[k].params])
        /\ WhereOf(ret.chain).sql = Join([k \in 1..Len(new) |-> new[k].sql], " AND ")
        /\ WhereOf(ret.chain).params = Concat([k \in 1..Len(new) |-> new[k].params])

\* a where on a chain of two different conditions has returned
C2_Witness ==
  /\ call.m = "where"
  /\ ret.kind = "chain"
  /\ Len(Unwrap(recv).extra_conditions) = 1
  /\ Unwrap(recv).extra_conditions[1] # <<Unwrap(recv).column, Unwrap(recv).operator,
                                          Unwrap(recv).value>>

\* the number of parameters a condition is to bind: one per comma-separated segment for
\* IN, none for a null test, one otherwise
ExpectedParams(cond) ==
  IF IsIn(cond[2]) THEN CountChar(InText(cond[3]), ",") + 1
  ELSE IF IsNullTest(cond[2]) THEN 0
  ELSE 1

RECURSIVE SumExpected(_)
SumExpected(conds) ==
  IF Len(conds) = 0 THEN 0 ELSE ExpectedParams(conds[1]) + SumExpected(Tail(conds))

\* the text of a statement after its " WHERE "
AfterWhere(sql) ==
  LET i == CHOOSE k \in 1..Len(sql) : SubSeq(sql, k, k + 6) = " WHERE "
  IN  SubSeq(sql, i + 7, Len(sql))

\* the parameters a statement binds for its conditions: update binds its SET values first
WhereParams(m, data, st) ==
  IF m = "update" THEN SubSeq(st.params, Len(data) + 1, Len(st.params)) ELSE st.params

ParamCountOk(c, m, data, st) ==
  /\ Len(WhereParams(m, data, st)) = SumExpected(Conditions(c))
  /\ Len(WhereParams(m, data, st)) = CountChar(AfterWhere(st.sql), "?")

\* C3 as stated: in every statement compiled from a chain (all, first, last, destroy,
\* the WHERE part of update; both variants of the source) the parameters bound for the
\* conditions are one per IN segment, none per null test and one per other condition,
\* as many as the placeholders of the WHERE clause
C3_ParamCount ==
  (ret.kind = "stmt" /\ call.m \in ReadMethods \cup UpdateMethods) =>
    ParamCountOk(Unwrap(recv), call.m, call.data, ret.stmt)

\* C3 for the statements of filtered_table.rs and for lib.rs all and destroy
ParamCountModular ==
  (ret.kind = "stmt" /\ call.m \in ReadMethods \cup {"update"}) =>
    ParamCountOk(Unwrap(recv), call.m, call.data, ret.stmt)

---------------------------------------------------------------------------
(* The table users(id UNIQUE, age, name), its columns declared without a     *)
(* type, and the SQL engine as far as the statements of this program use it. *)

Schema == {"id", "age", "name", "count", "ratio", "flag"}
UniqueColumns == {"id"}

\* characters in ASCII order, for the comparison of texts
AsciiOrder == " ,0123456789ABCDEFGHIJKLMNOPQRSTUVWXYZabcdefghijklmnopqrstuvwxyz"
CharRank(c) ==
  IF \E i \in 1..Len(AsciiOrder) : Char(AsciiOrder, i) = c
  THEN CHOOSE i \in 1..Len(AsciiOrder) : Char(AsciiOrder, i) = c
  ELSE 0

RECURSIVE TextLess(_, _)
TextLess(a, b) ==
  IF Len(b) = 0 THEN FALSE
  ELSE IF Len(a) = 0 THEN TRUE
  ELSE IF CharRank(Char(a, 1)) # CharRank(Char(b, 1))
       THEN CharRank(Char(a, 1)) < CharRank(Char(b, 1))
       ELSE TextLess(SubSeq(a, 2, Len(a)), SubSeq(b, 2, Len(b)))

\* SQLite's order of values: NULL, then numbers, then texts
TypeRank(v) == IF v.tag = "Null" THEN 0 ELSE IF v.tag = "Text" THEN 2 ELSE 1
NumKey(v) == v.i * 10 + v.f
SqlLess(a, b) ==
  IF TypeRank(a) # TypeRank(b) THEN TypeRank(a) < TypeRank(b)
  ELSE IF TypeRank(a) = 1 THEN NumKey(a) < NumKey(b)
  ELSE IF TypeRank(a) = 2 THEN TextLess(a.s, b.s)
  ELSE FALSE
SqlEq(a, b) == ~SqlLess(a, b) /\ ~SqlLess(b, a)

\* the value of a column expression in the row at position k of rs
ColumnValue(rs, k, col) ==
  IF col = "1" THEN SqlInteger(1)
  ELSE IF col = "rowid" THEN SqlInteger(k)
  ELSE rs[k][col]

KnownColumn(col) == col \in Schema \cup {"1", "rowid"}
KnownOperator(o) ==
  ToUppercase(o) \in {"=", "!=", "<", ">", "<=", ">=", "IN", "IS NULL", "IS NOT NULL"}

\* whether the row at position k satisfies one rendered condition with its parameters
Matches(rs, k, cond) ==
  LET v == ColumnValue(rs, k, cond[1])
      o == ToUppercase(cond[2])
      q == IF cond[3].t = "A" THEN SqlText(cond[3].s) ELSE SqlInteger(cond[3].i)
  IN  CASE o = "IS NULL" -> v.tag = "Null"
        [] o = "IS NOT NULL" -> v.tag # "Null"
        [] o = "IN" ->
             /\ v.tag # "Null"
             /\ \E j \in 1..Len(InItems(cond[3])) : SqlEq(v, SqlText(InItems(cond[3])[j]))
        [] OTHER ->
             /\ v.tag # "Null"
             /\ CASE o = "=" -> SqlEq(v, q)
                  [] o = "!=" -> ~SqlEq(v, q)
                  [] o = "<" -> SqlLess(v, q)
                  [] o = ">" -> SqlLess(q, v)
                  [] o = "<=" -> ~SqlLess(q, v)
                  [] o = ">=" -> ~SqlLess(v, q)
                  [] OTHER -> FALSE

\* the positions of the rows that satisfy every condition of the chain
Matching(rs, c) ==
  {k \in 1..Len(rs) : \A j \in 1..Len(Conditions(c)) : Matches(rs, k, Conditions(c)[j])}

\* whether the engine prepares the statements of the chain
PrepareOk(c) ==
  /\ \A j \in 1..Len(Conditions(c)) :
       KnownColumn(Conditions(c)[j][1]) /\ KnownOperator(Conditions(c)[j][2])
  /\ IsSome(c.order_by) =>
       /\ KnownColumn(Unwrap(c.order_by)[1])
       /\ ToUppercase(Unwrap(c.order_by)[2]) \in {"ASC", "DESC"}

\* ORDER BY: the positions in ks by the column, ascending or descending; rows of equal
\* value keep their rowid order
RECURSIVE Sorted(_, _, _, _)
Sorted(rs, ks, col, desc) ==
  IF ks = {} THEN <<>>
  ELSE LET before(a, b) ==
             IF desc THEN SqlLess(ColumnValue(rs, b, col), ColumnValue(rs, a, col))
             ELSE SqlLess(ColumnValue(rs, a, col), ColumnValue(rs, b, col))
           k == CHOOSE a \in ks :
                  \A b \in ks \ {a} : before(a, b) \/ (~before(b, a) /\ a < b)
       IN  <<k>> \o Sorted(rs, ks \ {k}, col, desc)

\* SELECT * FROM users WHERE <conditions> [ORDER BY col dir]: the rows, in result order
Select(rs, c) ==
  LET ks == Matching(rs, c)
      order == IF IsSome(c.order_by)
               THEN Sorted(rs, ks, Unwrap(c.order_by)[1],
                           ToUppercase(Unwrap(c.order_by)[2]) = "DESC")
               ELSE Sorted(rs, ks, "rowid", FALSE)
  IN  [j \in 1..Len(order) |-> rs[order[j]]]

\* the rows of rs at the positions not in ks
RECURSIVE Without(_, _)
Without(rs, ks) ==
  IF Len(rs) = 0 THEN <<>>
  ELSE Without(SubSeq(rs, 1, Len(rs) - 1), ks)
         \o (IF Len(rs) \in ks THEN <<>> ELSE <<rs[Len(rs)]>>)

\* DELETE FROM users WHERE <conditions>
Delete(rs, c) == Without(rs, Matching(rs, c))

\* UPDATE users SET col = value, ... WHERE <conditions>, for SET columns of the schema
Update(rs, c, sets) ==
  [k \in 1..Len(rs) |->
     IF k \in Matching(rs, c)
     THEN [col \in Schema |->
             IF \E j \in 1..Len(sets) : sets[j][1] = col
             THEN sets[CHOOSE j \in 1..Len(sets) :
                         sets[j][1] = col /\ \A i \in (j + 1)..Len(sets) : sets[i][1] # col][2]
             ELSE rs[k][col]]
     ELSE rs[k]]

---------------------------------------------------------------------------
(* Value coercion and row materialisation (src/src/extra.rs).              *)

\* js_unknown_to_rusqlite_value
js_unknown_to_rusqlite_value(val) ==
  IF val.t \in {"Null", "Undefined"} THEN Ok(SqlNull)
  ELSE IF val.t = "Boolean" THEN Ok(SqlInteger(IF val.i = 1 THEN 1 ELSE 0))
  ELSE IF val.t = "Number"
       THEN IF val.f = 0 THEN Ok(SqlInteger(val.i)) ELSE Ok(SqlReal(val.i, val.f))
  ELSE IF val.t = "String" THEN Ok(SqlText(val.s))
  ELSE Ok(SqlNull)

\* js_object_to_hashmap: the payload <<key, value>>, ... as a map; null and undefined
\* properties are left out, an object is replaced by its JSON text
js_object_to_hashmap(obj) ==
  LET kept == {k \in 1..Len(obj) : obj[k][2].t \notin {"Undefined", "Null"}}
  IN  [key \in {obj[k][1] : k \in kept} |->
         LET v == obj[CHOOSE k \in kept : obj[k][1] = key][2]
         IN  IF v.t = "Object" THEN JsString(v.s) ELSE v]

\* js_unknown_to_rusqlite_value (lib.rs): every number is a Real
LibJsUnknownToValue(val) ==
  IF val.t \in {"Null", "Undefined"} THEN Ok(SqlNull)
  ELSE IF val.t = "Boolean" THEN Ok(SqlInteger(IF val.i = 1 THEN 1 ELSE 0))
  ELSE IF val.t = "Number" THEN Ok(SqlReal(val.i, val.f))
  ELSE IF val.t = "String" THEN Ok(SqlText(val.s))
  ELSE Ok(SqlNull)

\* js_object_to_hashmap (lib.rs): every property is kept as it is
LibJsObjectToHashmap(obj) ==
  [key \in {obj[k][1] : k \in 1..Len(obj)} |->
     obj[CHOOSE k \in 1..Len(obj) : obj[k][1] = key][2]]

\* row_to_object: the JavaScript value set for each column of a result row
row_to_object(row) ==
  [col \in DOMAIN row |->
     CASE row[col].tag = "Integer" -> JsNumber(row[col].i, 0)
       [] row[col].tag = "Real" -> JsNumber(row[col].i, row[col].f)
       [] row[col].tag = "Text" -> JsString(row[col].s)
       [] OTHER -> JsUndefined]

---------------------------------------------------------------------------
(* What the operations compute on the rows of the table.                   *)

\* FilteredTable::all: the rows the statement returns, or its prepare error
all(rs, self) ==
  IF PrepareOk(self) THEN Ok(Select(rs, self)) ELSE Err("Prepare failed")

\* iter.next() of a result
Next1(r) == IF ~r.ok THEN r ELSE Ok(IF Len(r.v) = 0 THEN None ELSE Some(r.v[1]))
\* iter.last() of a result
Last1(r) == IF ~r.ok THEN r ELSE Ok(IF Len(r.v) = 0 THEN None ELSE Some(r.v[Len(r.v)]))

\* FilteredTable::first and FilteredTable::last (filtered_table.rs)
first(rs, self) == Next1(all(rs, Forced(self, "ASC")))
last(rs, self) == Next1(all(rs, Forced(self, "DESC")))

\* FilteredTable::first and FilteredTable::last (lib.rs)
LibFirst(rs, self) == Next1(all(rs, self))
LibLast(rs, self) == Last1(all(rs, self))

\* the chains Table's shorthands build
TableAllChain(name) == FilteredTable(name, "1", "=", EitherB(1), <<>>, None)
TableFirstChain(name) ==
  FilteredTable(name, "1", "=", EitherB(1), <<>>, Some(<<"id", "ASC">>))
TableLastChain(name) ==
  FilteredTable(name, "1", "=", EitherB(1), <<>>, Some(<<"id", "DESC">>))

\* the chain of every row but the one of the id
TableIdChainNot(name, id) == FilteredTable(name, "id", "!=", id, <<>>, None)
TableIdChain(name, id) == FilteredTable(name, "id", "=", id, <<>>, None)

\* Table::first, Table::last, Table::find (table.rs): each ends in FilteredTable::first
Table_first(rs, name) == first(rs, TableFirstChain(name))
Table_last(rs, name) == first(rs, TableLastChain(name))
Table_find(rs, name, id) == first(rs, TableIdChain(name, id))

\* Table::find (lib.rs): SELECT * FROM <name> WHERE id = ? and the first row of it
LibTableFind(rs, name, id) == Next1(all(rs, TableIdChain(name, id)))

\* FilteredTable::destroy: the rows after the statement, or its error
destroy(rs, self) ==
  IF PrepareOk(self) THEN Ok(Delete(rs, self)) ELSE Err("Execute failed")

\* FilteredTable::update (filtered_table.rs): the rows after the statement, or the error
update(rs, self, data) ==
  IF \E k \in 1..Len(data) : ~UpdateValue(data[k][2]).ok
  THEN Err("Unsupported value type in update")
  ELSE IF PrepareOk(self) /\ Len(data) > 0 /\ \A k \in 1..Len(data) : data[k][1] \in Schema
  THEN Ok(Update(rs, self, [k \in 1..Len(data) |-> <<data[k][1], UpdateValue(data[k][2]).v>>]))
  ELSE Err("Execute failed")

\* destroy(id) that reports an id no row has as an error
Table_destroy_strict(rs, name, id) ==
  IF Matching(rs, TableIdChain(name, id)) = {} THEN Err("Execute failed: no row")
  ELSE destroy(rs, TableIdChain(name, id))

\* Table::destroy (table.rs): FilteredTable::destroy on the chain id = ?
Table_destroy(rs, name, id) == destroy(rs, TableIdChain(name, id))

\* the row INSERT INTO users (columns) VALUES (values) stores
StoredRow(values) ==
  [col \in Schema |-> IF col \in DOMAIN values THEN values[col] ELSE SqlNull]

\* whether a stored row breaks the UNIQUE constraint against the rows rs
BreaksUnique(rs, row) ==
  \E col \in UniqueColumns, k \in 1..Len(rs) :
    row[col].tag # "Null" /\ rs[k][col].tag # "Null" /\ SqlEq(rs[k][col], row[col])

\* the transaction keeps what it wrote when it is dropped
OnDropKeeps(snapshot, current) == current

\* the transaction's rows when it is dropped without commit, as the ? of insert does
\* on an error: rusqlite rolls back
OnDrop(snapshot, current) == snapshot

\* one turn of insert's loop for the payload map row: the rows after it, or the error
InsertOne(rs, row) ==
  IF DOMAIN row = {} THEN Ok(rs)
  ELSE IF ~(DOMAIN row \subseteq Schema) THEN Err("prepare: no such column")
  ELSE IF \E col \in DOMAIN row : ~js_unknown_to_rusqlite_value(row[col]).ok
  THEN Err("value conversion")
  ELSE LET stored == StoredRow([col \in DOMAIN row |->
                                  js_unknown_to_rusqlite_value(row[col]).v])
       IN  IF BreaksUnique(rs, stored) THEN Err("execute: UNIQUE constraint failed")
           ELSE Ok(Append(rs, stored))

\* the same turn of the loop of Table::insert of lib.rs, with its conversion
LibInsertOne(rs, row) ==
  IF DOMAIN row = {} THEN Ok(rs)
  ELSE IF ~(DOMAIN row \subseteq Schema) THEN Err("prepare: no such column")
  ELSE LET stored == StoredRow([col \in DOMAIN row |-> LibJsUnknownToValue(row[col]).v])
       IN  IF BreaksUnique(rs, stored) THEN Err("execute: UNIQUE constraint failed")
           ELSE Ok(Append(rs, stored))

\* Table.insert of table.rs and of lib.rs
InsertMethods == {"Table.insert", "lib.Table.insert"}

\* one turn of the loop of the method m for the payload
InsertStep(m, rs, payload) ==
  IF m = "lib.Table.insert" THEN LibInsertOne(rs, LibJsObjectToHashmap(payload))
  ELSE InsertOne(rs, js_object_to_hashmap(payload))

\* the statements callers pass to Database.execute and Database.query
DeleteAllSql == "DELETE FROM users"
SelectAllSql == "SELECT * FROM users"
BeginSql == "BEGIN"
CommitSql == "COMMIT"

\* Database::execute: the rows after the batch, or its error
execute(rs, sql) ==
  IF sql = DeleteAllSql THEN Ok(<<>>)
  ELSE IF sql \in {BeginSql, CommitSql} THEN Ok(rs)
  ELSE Err("execute failed")

\* whether the engine refuses the batch for the transaction state t of the connection:
\* BEGIN inside a transaction, COMMIT outside one
TxError(o, t) ==
  /\ o.m = "Database.execute"
  /\ \/ o.sql = BeginSql /\ t # None
     \/ o.sql = CommitSql /\ t = None

\* the transaction of the connection after the batch of execute: BEGIN opens one that
\* stays open when execute returns, COMMIT closes it
TxOf(o, t, rs) ==
  IF o.m = "Database.execute" /\ o.sql = BeginSql /\ t = None THEN Some(rs)
  ELSE IF o.m = "Database.execute" /\ o.sql = CommitSql THEN None
  ELSE t

\* Database::query: the rows the statement returns, or its error
query(rs, sql) ==
  IF sql = SelectAllSql THEN Ok(rs) ELSE Err("prepare failed")

---------------------------------------------------------------------------
(* Spec: concurrent callers of one Database.                               *)

Procs == {"p1", "p2"}
Free == "free"

Pa1 == <<<<"id", JsNumber(1, 0)>>, <<"age", JsNumber(30, 0)>>>>
Pa2 == <<<<"id", JsNumber(2, 0)>>, <<"age", JsNumber(17, 0)>>>>
PaBad == <<<<"id", JsNumber(3, 0)>>, <<"name", JsFunction>>>>
PaEmpty == <<<<"name", JsNull>>>>
PaNope == <<<<"id", JsNumber(3, 0)>>, <<"nope", JsNumber(1, 0)>>>>
\* {id: 4, name: "a", count: 3, ratio: 1.5, flag: true}
PaRound ==
  <<<<"id", JsNumber(4, 0)>>, <<"name", JsString("a")>>, <<"count", JsNumber(3, 0)>>,
    <<"ratio", JsNumber(1, 5)>>, <<"flag", JsBoolean(TRUE)>>>>

Batches == { <<Pa1>>, <<Pa1, Pa2>>, <<Pa1, Pa2, PaBad>>, <<Pa2, PaEmpty, PaNope>> }

\* table("users").where("age", ">", 10), and the same chain after order_by("age", "DESC")
ChainOld ==
  Table_where_(TableName, "age", FromNapiOpOrValue(JsString(">")),
               FromNapiValueOpt(JsNumber(10, 0))).v
ChainOldDesc == order_by(ChainOld, "age", Some("DESC"))
\* table("users").where("age", ">", 18)
ChainAdult ==
  Table_where_(TableName, "age", FromNapiOpOrValue(JsString(">")),
               FromNapiValueOpt(JsNumber(18, 0))).v

\* a call: the method, and those of chain, batch, payload, id and SQL text the method takes
Op(m, chain, batch, data, id, sql) ==
  [m |-> m, chain |-> chain, batch |-> batch, data |-> data, id |-> id, sql |-> sql,
   i |-> 1]
NoBatch == <<>>
NoOp == Op("", NoChain, NoBatch, NoData, EitherB(0), "")

ReadChains == {ChainOld, ChainOldDesc}
FindIds == {EitherB(1), EitherB(9)}

Calls ==
  {Op("Table.insert", NoChain, b, NoData, EitherB(0), "") : b \in Batches}
    \cup {Op(m, c, NoBatch, NoData, EitherB(0), "") :
            m \in {"all", "first", "last", "lib.first", "lib.last"}, c \in ReadChains}
    \cup {Op("destroy", ChainAdult, NoBatch, NoData, EitherB(0), "")}
    \cup {Op("update", TableIdChain(TableName, EitherB(2)), NoBatch, d, EitherB(0), "") :
            d \in { <<<<"age", JsNumber(40, 0)>>>>, <<<<"age", JsNull>>>> }}
    \cup {Op(m, NoChain, NoBatch, NoData, EitherB(0), "") : m \in {"Table.first", "Table.last"}}
    \cup {Op(m, NoChain, NoBatch, NoData, id, "") : m \in {"Table.find", "lib.Table.find"},
                                           id \in FindIds}
    \cup {Op("Database.execute", NoChain, NoBatch, NoData, EitherB(0), DeleteAllSql),
          Op("Database.query", NoChain, NoBatch, NoData, EitherB(0), SelectAllSql)}

\* the methods that take lock().unwrap(): a poisoned mutex makes them panic; the others
\* map the failure to the error "Lock poisoned"
UnwrapsLock(m) ==
  m \in {"Table.insert", "lib.Table.insert", "Database.execute", "Database.query",
         "lib.first", "lib.last", "lib.Table.find"}

\* the methods that return all the rows of their statement, and those that return one
ListMethods == {"all", "Database.query"}
OneMethods == {"first", "last", "lib.first", "lib.last",
               "Table.first", "Table.last", "Table.find", "lib.Table.find"}
WriteMethods ==
  {"destroy", "update", "Database.execute", "Table.destroy", "row.destroy", "row.update"}

\* the rows a reading method returns: a list of rows or an Option of a row
ReadOf(o, rs) ==
  CASE o.m = "all" -> all(rs, o.chain)
    [] o.m = "first" -> first(rs, o.chain)
    [] o.m = "last" -> last(rs, o.chain)
    [] o.m = "lib.first" -> LibFirst(rs, o.chain)
    [] o.m = "lib.last" -> LibLast(rs, o.chain)
    [] o.m = "Table.first" -> Table_first(rs, TableName)
    [] o.m = "Table.last" -> Table_last(rs, TableName)
    [] o.m = "Table.find" -> Table_find(rs, TableName, o.id)
    [] o.m = "lib.Table.find" -> LibTableFind(rs, TableName, o.id)
    [] o.m = "Database.query" -> query(rs, o.sql)

\* the number of rows the method hands to row_to_object: all of its statement's rows,
\* lib.rs Table::find only the first
Materialised(o, rs) ==
  LET whole ==
        CASE o.m \in {"first", "Table.first", "Table.last", "Table.find"} ->
               all(rs, Forced(IF o.m = "first" THEN o.chain
                              ELSE IF o.m = "Table.first" THEN TableFirstChain(TableName)
                              ELSE IF o.m = "Table.last" THEN TableLastChain(TableName)
                              ELSE TableIdChain(TableName, o.id), "ASC"))
          [] o.m = "last" -> all(rs, Forced(o.chain, "DESC"))
          [] o.m \in {"all", "lib.first", "lib.last"} -> all(rs, o.chain)
          [] o.m = "lib.Table.find" -> Next1(all(rs, TableIdChain(TableName, o.id)))
          [] OTHER -> query(rs, o.sql)
  IN  IF whole.ok THEN Len(whole.v) ELSE 0

\* the rows after a writing method, or its error
WriteOf(o, rs) ==
  CASE o.m = "destroy" -> destroy(rs, o.chain)
    [] o.m = "update" -> update(rs, o.chain, o.data)
    [] o.m = "Database.execute" -> execute(rs, o.sql)
    [] o.m = "Table.destroy" -> Table_destroy(rs, TableName, o.id)
    [] o.m = "row.destroy" -> destroy(rs, o.chain)
    [] o.m = "row.update" -> update(rs, o.chain, o.data)

\* what a call returned: ok with its rows (a list, or an Option), an error, or a panic
OutOk(v) == [kind |-> "ok", reason |-> "", v |-> v]
OutErr(reason) == [kind |-> "err", reason |-> reason, v |-> <<>>]
OutPanic(reason) == [kind |-> "panic", reason |-> reason, v |-> <<>>]
OutOfRead(r) ==
  IF r.ok THEN OutOk([k \in 1..Len(r.v) |-> row_to_object(r.v[k])]) ELSE OutErr(r.reason)

Returned(p, o, before, out) == [p |-> p, call |-> o, before |-> before, out |-> out]
NoCall == Returned("", NoOp, <<>>, OutOk(<<>>))

InitDb ==
  /\ rows = <<>>
  /\ tx = None
  /\ lock = Free
  /\ poisoned = FALSE
  /\ pc = [p \in Procs |-> "idle"]
  /\ inflight = [p \in Procs |-> NoOp]
  /\ returned = NoCall
  /\ prev = NoCall

\* lock() hands out the mutex whoever holds it
CanLockAlways(p) == TRUE

\* Mutex::lock: the mutex is taken when no caller holds it
CanLock(p) == lock = Free

\* what lock() gives on a poisoned mutex: an error, never the guard's connection
LockFailure(o) ==
  IF UnwrapsLock(o.m) THEN OutPanic("PoisonError") ELSE OutErr("Lock poisoned")

\* lock() hands the connection over though the mutex is poisoned
LockIgnoresPoison == TRUE

\* whether lock() hands the connection to the caller
LockGivesConnection == ~poisoned

\* a caller calls a method and reaches its lock()
Begin(p, o) ==
  /\ pc[p] = "idle"
  /\ pc' = [pc EXCEPT ![p] = "wait"]
  /\ inflight' = [inflight EXCEPT ![p] = o]
  /\ returned' = NoCall
  /\ UNCHANGED <<rows, tx, lock, poisoned>>
  /\ UNCHANGED chainVars

Call(p) == \E o \in Calls : Begin(p, o) /\ UNCHANGED prev

\* what conn.transaction() of insert reports on a connection whose transaction is open
NestedTx == "cannot start a transaction within a transaction"

\* lock() returns: the caller holds the connection (insert opens its transaction, and
\* ends with the engine's error when one is open already), or the mutex is poisoned and
\* the call ends
Acquire(p) ==
  /\ pc[p] = "wait"
  /\ CanLock(p)
  /\ IF LockGivesConnection /\ inflight[p].m \in InsertMethods /\ tx # None
     THEN /\ pc' = [pc EXCEPT ![p] = "idle"]
          /\ inflight' = [inflight EXCEPT ![p] = NoOp]
          /\ returned' = Returned(p, inflight[p], rows, OutErr(NestedTx))
          /\ UNCHANGED <<rows, tx, lock, poisoned>>
     ELSE IF LockGivesConnection
     THEN /\ lock' = p
          /\ tx' = IF inflight[p].m \in InsertMethods THEN Some(rows) ELSE tx
          /\ pc' = [pc EXCEPT ![p] = IF inflight[p].m \in InsertMethods THEN "tx" ELSE "held"]
          /\ returned' = NoCall
          /\ UNCHANGED <<rows, poisoned, inflight>>
     ELSE /\ pc' = [pc EXCEPT ![p] = "idle"]
          /\ inflight' = [inflight EXCEPT ![p] = NoOp]
          /\ returned' = Returned(p, inflight[p], rows, LockFailure(inflight[p]))
          /\ UNCHANGED <<rows, tx, lock, poisoned>>
  /\ UNCHANGED <<chainVars, prev>>

\* a reading method runs its statement and materialises the rows; row_to_object
\* unwraps, and a panic of it poisons the mutex
Read(p) ==
  /\ pc[p] = "held"
  /\ inflight[p].m \in ListMethods \cup OneMethods
  /\ \E panics \in IF Materialised(inflight[p], rows) > 0 THEN BOOLEAN ELSE {FALSE} :
       /\ poisoned' = (poisoned \/ panics)
       /\ returned' = Returned(p, inflight[p], rows,
                           IF panics THEN OutPanic("row_to_object")
                           ELSE OutOfRead(ReadOf(inflight[p], rows)))
  /\ lock' = Free
  /\ pc' = [pc EXCEPT ![p] = "idle"]
  /\ inflight' = [inflight EXCEPT ![p] = NoOp]
  /\ UNCHANGED <<rows, tx>>
  /\ UNCHANGED <<chainVars, prev>>

\* a guard that is dropped only when the method returns Ok
GuardKeptOnError(p, r) == IF r.ok THEN Free ELSE p

\* the mutex when the method of caller p returns r: the MutexGuard conn is a local of
\* the method and is dropped on every return, the early ones of ? and return Err too
GuardDropped(p, r) == Free

\* destroy, update, Database.execute run their statement
Write(p) ==
  /\ pc[p] = "held"
  /\ inflight[p].m \in WriteMethods
  /\ LET r == IF TxError(inflight[p], tx) THEN Err("execute failed")
              ELSE WriteOf(inflight[p], rows)
     IN  /\ rows' = IF r.ok THEN r.v ELSE rows
         /\ tx' = IF r.ok THEN TxOf(inflight[p], tx, rows) ELSE tx
         /\ returned' = Returned(p, inflight[p], rows,
                             IF r.ok THEN OutOk(<<>>) ELSE OutErr(r.reason))
         /\ lock' = GuardDropped(p, r)
  /\ pc' = [pc EXCEPT ![p] = "idle"]
  /\ inflight' = [inflight EXCEPT ![p] = NoOp]
  /\ UNCHANGED poisoned
  /\ UNCHANGED <<chainVars, prev>>

\* one turn of insert's loop: the payload is inserted, or its error ends the call and
\* the dropped transaction rolls back
InsertRow(p) ==
  /\ pc[p] = "tx"
  /\ inflight[p].i <= Len(inflight[p].batch)
  /\ LET r == InsertStep(inflight[p].m, rows, inflight[p].batch[inflight[p].i])
     IN  IF r.ok
         THEN /\ rows' = r.v
              /\ inflight' = [inflight EXCEPT ![p].i = @ + 1]
              /\ returned' = NoCall
              /\ UNCHANGED <<tx, lock, pc>>
         ELSE /\ rows' = OnDrop(Unwrap(tx), rows)
              /\ tx' = None
              /\ lock' = Free
              /\ pc' = [pc EXCEPT ![p] = "idle"]
              /\ inflight' = [inflight EXCEPT ![p] = NoOp]
              /\ returned' = Returned(p, inflight[p], Unwrap(tx), OutErr(r.reason))
  /\ UNCHANGED poisoned
  /\ UNCHANGED <<chainVars, prev>>

\* tx.commit() after the last payload
Commit(p) ==
  /\ pc[p] = "tx"
  /\ inflight[p].i > Len(inflight[p].batch)
  /\ tx' = None
  /\ lock' = Free
  /\ pc' = [pc EXCEPT ![p] = "idle"]
  /\ inflight' = [inflight EXCEPT ![p] = NoOp]
  /\ returned' = Returned(p, inflight[p], Unwrap(tx), OutOk(<<>>))
  /\ UNCHANGED <<rows, poisoned>>
  /\ UNCHANGED <<chainVars, prev>>

Next ==
  \E p \in Procs :
    Call(p) \/ Acquire(p) \/ Read(p) \/ Write(p) \/ InsertRow(p) \/ Commit(p)

Init == InitChain /\ InitDb

Spec == Init /\ [][Next]_vars

SpecChain == Init /\ [][NextChain]_vars

---------------------------------------------------------------------------
(* SpecSeq: one caller, one call after the other; prev keeps the call      *)
(* before, and a row object returned by first(), last() or find() can be   *)
(* asked to update or destroy.                                             *)

SeqProcs == {"p1"}

SeqCalls ==
  {Op("Table.insert", NoChain, b, NoData, EitherB(0), "") :
     b \in {<<Pa1>>, <<Pa1, Pa2>>, <<PaRound>>}}
    \cup {Op("lib.Table.insert", NoChain, <<PaRound>>, NoData, EitherB(0), "")}
    \cup {Op("Table.destroy", NoChain, NoBatch, NoData, id, "") : id \in FindIds}
    \cup {Op("first", ChainOld, NoBatch, NoData, EitherB(0), ""),
          Op("last", ChainOldDesc, NoBatch, NoData, EitherB(0), ""),
          Op("all", ChainOld, NoBatch, NoData, EitherB(0), ""),
          Op("Table.first", NoChain, NoBatch, NoData, EitherB(0), ""),
          Op("Table.find", NoChain, NoBatch, NoData, EitherB(1), ""),
          Op("Table.find", NoChain, NoBatch, NoData, EitherB(4), "")}

\* the chain first() hands to attach_ops: the receiver as it is, not the copy with the
\* forced order
AttachedChain(o) ==
  CASE o.m = "Table.first" -> TableFirstChain(TableName)
    [] o.m = "Table.last" -> TableLastChain(TableName)
    [] o.m = "Table.find" -> TableIdChain(TableName, o.id)
    [] OTHER -> o.chain

\* the methods whose row object attach_ops gives update, destroy and delete
AttachMethods == {"first", "last", "Table.first", "Table.last", "Table.find"}

\* callbacks that act on the one row the call r returned
RowCallsOnRow(r) ==
  IF r.call.m \in AttachMethods /\ r.out.kind = "ok" /\ Len(r.out.v) = 1
  THEN LET one == TableIdChain(TableName, EitherB(r.out.v[1]["id"].i))
       IN  {Op("row.destroy", one, NoBatch, NoData, EitherB(0), ""),
            Op("row.update", one, NoBatch, <<<<"age", JsNumber(40, 0)>>>>, EitherB(0), "")}
  ELSE {}

\* update_callback and destroy_callback on the row object the call r returned
RowCalls(r) ==
  IF r.call.m \in AttachMethods /\ r.out.kind = "ok" /\ Len(r.out.v) = 1
  THEN {Op("row.destroy", AttachedChain(r.call), NoBatch, NoData, EitherB(0), ""),
        Op("row.update", AttachedChain(r.call), NoBatch, <<<<"age", JsNumber(40, 0)>>>>,
           EitherB(0), "")}
  ELSE {}

SeqCall(p) == \E o \in SeqCalls \cup RowCalls(returned) : Begin(p, o) /\ prev' = returned

NextSeq ==
  \E p \in SeqProcs :
    SeqCall(p) \/ Acquire(p) \/ Read(p) \/ Write(p) \/ InsertRow(p) \/ Commit(p)

SpecSeq == Init /\ [][NextSeq]_vars

---------------------------------------------------------------------------
(* Properties of the operations on the rows (Spec).                        *)

\* the call that has just returned is one of the methods ms
Ret(ms) == returned # NoCall /\ returned.call.m \in ms

\* the positions of the payloads of a batch with at least one property that is kept
NonEmpty(batch) ==
  {k \in 1..Len(batch) :
     \E j \in 1..Len(batch[k]) : batch[k][j][2].t \notin {"Null", "Undefined"}}

\* the id a payload gives, as the engine stores it
IdOf(payload) ==
  SqlInteger(payload[CHOOSE j \in 1..Len(payload) : payload[j][1] = "id"][2].i)

\* whether rs has a row with the id
HasId(rs, id) == \E k \in 1..Len(rs) : rs[k]["id"] = id

\* whether the statement of some payload of the batch fails on the rows rs: a column the
\* table does not have, or an id the table or an earlier payload of the batch has
Failing(rs, batch) ==
  \E k \in NonEmpty(batch) :
    \/ \E j \in 1..Len(batch[k]) : batch[k][j][1] \notin Schema
    \/ HasId(rs, IdOf(batch[k]))
    \/ \E e \in NonEmpty(batch) : e < k /\ IdOf(batch[e]) = IdOf(batch[k])

\* C4: Table.insert is atomic: when the statement of a payload fails the call returns
\* an error and the table holds exactly the rows it held before the call; when none
\* fails every non-empty payload is a row of the table after the call
C4_InsertAtomic ==
  Ret({"Table.insert"}) =>
    LET batch == returned.call.batch
        before == returned.before
    IN  /\ Failing(before, batch) => returned.out.kind # "ok"
        /\ returned.out.kind # "ok" => rows = before
        /\ returned.out.kind = "ok" =>
             /\ Len(rows) = Len(before) + Cardinality(NonEmpty(batch))
             /\ SubSeq(rows, 1, Len(before)) = before
             /\ \A k \in NonEmpty(batch) : HasId(rows, IdOf(batch[k]))

\* an insert has failed on its third payload after its first was stored
C4_Witness ==
  /\ Ret({"Table.insert"})
  /\ returned.out.kind = "err"
  /\ returned.call.i = Len(returned.call.batch)
  /\ Len(returned.call.batch) > 1
  /\ ~HasId(returned.before, IdOf(returned.call.batch[1]))
  /\ rows = returned.before

\* the value types js_unknown_to_rusqlite_value has an arm for, with Object, which
\* js_object_to_hashmap turns into a string
SupportedTypes == {"Null", "Undefined", "Boolean", "Number", "String", "Object"}

\* C5 as stated: Table.insert of a batch whose last payload has a field of an
\* unsupported value type fails and leaves the table with zero new rows
C5_AsStated ==
  (/\ Ret({"Table.insert"})
   /\ returned.call.batch # <<>>
   /\ LET bad == returned.call.batch[Len(returned.call.batch)]
      IN  \E j \in 1..Len(bad) : bad[j][2].t \notin SupportedTypes)
    => /\ returned.out.kind # "ok"
       /\ rows = returned.before

\* C6: at most one caller is at work on the connection, and it holds the lock; a
\* transaction is open only while its inserter holds the lock; so every reading method
\* runs on rows no transaction is open on, and returns what those rows give
C6_MutualExclusion ==
  LET Holders == {p \in Procs : pc[p] \in {"held", "tx"}}
  IN  /\ Cardinality(Holders) <= 1
      /\ \A p \in Holders : lock = p
      /\ lock # Free => lock \in Holders
      /\ IsSome(tx) <=> \E p \in Procs : pc[p] = "tx"
      /\ \A p \in Procs : pc[p] = "held" => tx = None
      /\ (Ret(ListMethods \cup OneMethods) /\ returned.out.kind = "ok") =>
           /\ tx = None
           /\ rows = returned.before
           /\ returned.out = OutOfRead(ReadOf(returned.call, rows))

\* an insert has stored its first payload and not yet its second, while the other caller
\* waits in all() for the lock
C6_Witness ==
  \E p \in Procs, q \in Procs :
    /\ pc[p] = "tx"
    /\ inflight[p].i = Len(inflight[p].batch)
    /\ Len(rows) > Len(Unwrap(tx))
    /\ pc[q] = "wait"
    /\ inflight[q].m = "all"

\* C7: once the lock is poisoned no caller is at work on the connection, and every call
\* that returns returns an error or panics, with the rows as they were
C7_PoisonedIsFatal ==
  poisoned =>
    /\ lock = Free
    /\ tx = None
    /\ \A p \in Procs : pc[p] \in {"idle", "wait"}
    /\ returned # NoCall =>
         /\ returned.out.kind \in {"err", "panic"}
         /\ rows = returned.before

\* update() on a chain has returned the error of the poisoned lock
C7_Witness ==
  /\ poisoned
  /\ Ret({"update"})
  /\ returned.out = OutErr("Lock poisoned")
  /\ Len(rows) > 0

\* the column first() and last() order by
OrderColumnOf(c) == IF IsSome(c.order_by) THEN Unwrap(c.order_by)[1] ELSE "rowid"

\* the positions in ks of the rows smallest, and greatest, in the column
Smallest(rs, ks, col) ==
  {k \in ks : \A j \in ks : ~SqlLess(ColumnValue(rs, j, col), ColumnValue(rs, k, col))}
Greatest(rs, ks, col) ==
  {k \in ks : \A j \in ks : ~SqlLess(ColumnValue(rs, k, col), ColumnValue(rs, j, col))}

\* first() (of the methods firsts) returns the matching row smallest in the order
\* column, last() (of the methods lasts) the greatest, and each nothing when no row
\* matches
FirstLastOk(firsts, lasts) ==
  (Ret(firsts \cup lasts) /\ returned.out.kind = "ok") =>
    LET rs == returned.before
        c == returned.call.chain
        ks == Matching(rs, c)
        best == IF returned.call.m \in firsts THEN Smallest(rs, ks, OrderColumnOf(c))
                ELSE Greatest(rs, ks, OrderColumnOf(c))
    IN  IF ks = {} THEN returned.out.v = <<>>
        ELSE \E k \in best : returned.out.v = <<row_to_object(rs[k])>>

\* C8 as stated: for every chain, first() returns the matching row smallest and last()
\* the matching row greatest in the chain's order column (rowid when it has none),
\* whatever direction the chain's own ordering carried, and nothing when no row matches
C8_AsStated == FirstLastOk({"first", "lib.first"}, {"last", "lib.last"})

\* the same of filtered_table.rs alone
FirstLastModular == FirstLastOk({"first"}, {"last"})

\* C9 as stated: Table.first() returns the row with the smallest id and Table.last() the
\* row with the greatest id
C9_AsStated ==
  (Ret({"Table.first", "Table.last"}) /\ returned.out.kind = "ok") =>
    LET rs == returned.before
        ks == 1..Len(rs)
        best == IF returned.call.m = "Table.first" THEN Smallest(rs, ks, "id")
                ELSE Greatest(rs, ks, "id")
    IN  IF ks = {} THEN returned.out.v = <<>>
        ELSE \E k \in best : returned.out.v = <<row_to_object(rs[k])>>

\* Table.first() alone returns the row with the smallest id
TableFirstOk ==
  (Ret({"Table.first"}) /\ returned.out.kind = "ok") =>
    LET rs == returned.before
    IN  IF rs = <<>> THEN returned.out.v = <<>>
        ELSE \E k \in Smallest(rs, 1..Len(rs), "id") :
               returned.out.v = <<row_to_object(rs[k])>>

\* C10: Table.find(id) returns what where("id", "=", id).first() returns: the row with
\* the id when there is one, nothing when there is none; a missing id is never an
\* error (the call fails only on a poisoned lock, or when a row it found cannot be
\* materialised); and the rows are as they were
C10_Find ==
  Ret({"Table.find", "lib.Table.find"}) =>
    LET rs == returned.before
        id == returned.call.id
        found == {k \in 1..Len(rs) : rs[k]["id"] = SqlInteger(id.i)}
        chain == Table_where_(TableName, "id", FromNapiOpOrValue(JsString("=")),
                              FromNapiValueOpt(JsNumber(id.i, 0))).v
    IN  /\ rows = rs
        /\ returned.out.kind = "ok" =>
             /\ returned.out = OutOfRead(first(rs, chain))
             /\ IF found = {} THEN returned.out.v = <<>>
                ELSE \E k \in found : returned.out.v = <<row_to_object(rs[k])>>
        /\ returned.out.kind # "ok" =>
             \/ returned.out = LockFailure(returned.call)
             \/ found # {} /\ returned.out = OutPanic("row_to_object")

\* Table.find has returned nothing for an id no row of a table of two rows has
C10_Witness ==
  /\ Ret({"Table.find"})
  /\ returned.call.id = EitherB(9)
  /\ returned.out = OutOk(<<>>)
  /\ Len(rows) > 1

---------------------------------------------------------------------------
(* Properties of calls in sequence (SpecSeq).                              *)

\* the rows of rs whose id is not the id
OtherRows(rs, id) == SelectSeq(rs, LAMBDA r : r["id"] # SqlInteger(id.i))

\* C11: Table.destroy(id) that succeeds leaves no row with the id and every other row
\* as it was; called again right after a destroy of the same id that succeeded, it
\* succeeds, affects no row, and leaves the table as the first call left it
C11_DestroyIdempotent ==
  Ret({"Table.destroy"}) =>
    LET id == returned.call.id
        before == returned.before
    IN  /\ returned.out.kind = "ok" => rows = OtherRows(before, id)
        /\ (prev.call.m = "Table.destroy" /\ prev.call.id = id /\ prev.out.kind = "ok") =>
             /\ returned.out.kind = "ok"
             /\ ~HasId(before, SqlInteger(id.i))
             /\ rows = before

\* the second of two Table.destroy(1) in a row has returned; the first removed a row
\* and left another
C11_Witness ==
  /\ Ret({"Table.destroy"})
  /\ prev.call.m = "Table.destroy"
  /\ prev.call.id = returned.call.id
  /\ prev.out.kind = "ok"
  /\ HasId(prev.before, SqlInteger(prev.call.id.i))
  /\ returned.out.kind = "ok"
  /\ Len(rows) > 0

---------------------------------------------------------------------------
(* Properties of chain construction (SpecChain).                           *)

\* C12 as stated: where(column, operator, value) with a string operator installs that
\* operator and value; where(column, value) with no third argument installs "=" and the
\* value, a string or an integer; every other shape returns the error
\* "Invalid arguments for where" and no chain
C12_AsStated ==
  call.m \in {"where", "Table.where"} =>
    LET a2 == call.args[2]
        a3 == call.args[3]
    IN  IF a2.t = "String" /\ a3.t \in {"String", "Number"}
        THEN /\ ret.kind = "chain"
             /\ ret.chain.column = call.args[1]
             /\ ret.chain.operator = a2.s
             /\ ret.chain.value = FromNapiEither(a3)
        ELSE IF a2.t \in {"String", "Number"} /\ a3.t = "Undefined"
        THEN /\ ret.kind = "chain"
             /\ ret.chain.column = call.args[1]
             /\ ret.chain.operator = "="
             /\ ret.chain.value = FromNapiEither(a2)
        ELSE /\ ret.kind = "error"
             /\ ret.reason = "Invalid arguments for where"

\* the part of C12 the source keeps: (column, operator, value) with a string second
\* argument, and (column, value) with an integer value
WhereShapesKept ==
  call.m \in {"where", "Table.where"} =>
    LET a2 == call.args[2]
        a3 == call.args[3]
    IN  /\ (a2.t = "String" /\ a3.t \in {"String", "Number"}) =>
             /\ ret.kind = "chain"
             /\ ret.chain.operator = a2.s
             /\ ret.chain.value = FromNapiEither(a3)
        /\ (a2.t = "Number" /\ a3.t = "Undefined") =>
             /\ ret.kind = "chain"
             /\ ret.chain.operator = "="
             /\ ret.chain.value = FromNapiEither(a2)

---------------------------------------------------------------------------
(* Round trip of insert and read (SpecSeq).                                *)

\* the variant a payload value is to be stored as: a string as Text, a number without
\* fractional part as Integer, with one as Real, a boolean as Integer 0 or 1
StoredAs(js) ==
  CASE js.t = "String" -> SqlText(js.s)
    [] js.t = "Number" -> IF js.f = 0 THEN SqlInteger(js.i) ELSE SqlReal(js.i, js.f)
    [] js.t = "Boolean" -> SqlInteger(js.i)
    [] OTHER -> SqlNull

\* what the read path gives for a stored value when it keeps the variant
ReadAs(v) ==
  CASE v.tag = "Text" -> JsString(v.s)
    [] v.tag = "Integer" -> JsNumber(v.i, 0)
    [] v.tag = "Real" -> JsNumber(v.i, v.f)
    [] OTHER -> JsUndefined

\* the method inserts has stored a batch of one payload and Table.find has read it back:
\* every field of the payload is stored in its variant, and read as stored
RoundTripOk(inserts) ==
  (/\ Ret({"Table.find"})
   /\ returned.out.kind = "ok"
   /\ prev.call.m \in inserts
   /\ prev.out.kind = "ok"
   /\ Len(prev.call.batch) = 1
   /\ returned.call.id.i = IdOf(prev.call.batch[1]).i)
    => LET payload == prev.call.batch[1]
           k == CHOOSE k \in 1..Len(rows) : SqlEq(rows[k]["id"], IdOf(payload))
       IN  /\ \E j \in 1..Len(rows) : SqlEq(rows[j]["id"], IdOf(payload))
           /\ \A j \in 1..Len(payload) : rows[k][payload[j][1]] = StoredAs(payload[j][2])
           /\ Len(returned.out.v) = 1
           /\ \A col \in Schema : returned.out.v[1][col] = ReadAs(rows[k][col])

\* C13 as stated: a payload inserted and read back has each string stored as Text, each
\* number without fractional part as Integer, each number with one as Real, each
\* boolean as Integer 0 or 1, and is read in the stored variant (both variants of
\* insert)
C13_AsStated == RoundTripOk(InsertMethods)

\* the same of Table::insert of table.rs alone
RoundTripModular == RoundTripOk({"Table.insert"})

---------------------------------------------------------------------------
(* update against all (SpecChain).                                         *)

\* the WHERE clause and the parameters the statement of all() has for the chain
AllWhere(all_stmt) ==
  [sql |-> AfterWhere(all_stmt.sql), params |-> all_stmt.params]

\* the statement of update(data) on the chain c is UPDATE t SET col = ?, ... WHERE and
\* the WHERE clause of the statement all_stmt of all() on c without its ordering; its
\* parameters are the payload values in payload order, then those of all_stmt
UpdateAsAll(c, data, st, all_stmt) ==
  LET w == AllWhere(all_stmt)
  IN  /\ st.sql = "UPDATE " \o c.table \o " SET "
                     \o Join([k \in 1..Len(data) |-> data[k][1] \o " = ?"], ", ")
                     \o " WHERE " \o w.sql
      /\ Len(st.params) = Len(data) + Len(w.params)
      /\ \A k \in 1..Len(data) :
           /\ st.params[k].s = data[k][2].s
           /\ st.params[k].i = data[k][2].i
           /\ st.params[k].f = data[k][2].f
      /\ SubSeq(st.params, Len(data) + 1, Len(st.params)) = w.params

\* C14 as stated: for every chain and payload, update compiles
\* UPDATE t SET col = ?, ... WHERE <clause> with the clause and the WHERE parameters
\* all() compiles for the chain, binds every payload value and writes none into the
\* text, the SET values first (both variants of the source)
C14_AsStated ==
  (call.m \in UpdateMethods /\ ret.kind = "stmt") =>
    LET c == [Unwrap(recv) EXCEPT !.order_by = None]
    IN  UpdateAsAll(c, call.data, ret.stmt,
                    IF call.m = "update" THEN AllStmt(c) ELSE LibAllStmt(c))

\* the same of filtered_table.rs alone
UpdateAsAllModular ==
  (call.m = "update" /\ ret.kind = "stmt") =>
    LET c == [Unwrap(recv) EXCEPT !.order_by = None]
    IN  UpdateAsAll(c, call.data, ret.stmt, AllStmt(c))

---------------------------------------------------------------------------
(* Coercion of update payloads (Spec).                                     *)

\* the value types update is to accept
UpdateTypes == {"String", "Number", "Boolean"}

\* update with a payload value of another type returns the error without a statement:
\* the rows are as they were, the lock is free and no transaction is open
UpdateRefusal ==
  (/\ Ret({"update"})
   /\ returned.out # LockFailure(returned.call)
   /\ \E j \in 1..Len(returned.call.data) : returned.call.data[j][2].t \notin UpdateTypes)
    => /\ returned.out = OutErr("Unsupported value type in update")
       /\ rows = returned.before
       /\ lock = Free
       /\ tx = None

\* update with payload values of the accepted types stores each, in the rows that match
\* the chain, in the variant insert stores it in
UpdateStoresAsInsert ==
  (/\ Ret({"update"})
   /\ returned.out # LockFailure(returned.call)
   /\ \A j \in 1..Len(returned.call.data) : returned.call.data[j][2].t \in UpdateTypes)
    => /\ returned.out.kind = "ok"
       /\ Len(rows) = Len(returned.before)
       /\ \A k \in Matching(returned.before, returned.call.chain) :
            \A j \in 1..Len(returned.call.data) :
              rows[k][returned.call.data[j][1]] = StoredAs(returned.call.data[j][2])

\* C15 as stated: update coerces each payload value as insert does (string to Text,
\* whole number to Integer, other number to Real, boolean to Integer 0 or 1), and a
\* value of any other type makes it return "Unsupported value type in update" with no
\* statement executed, every row unchanged and the lock released
C15_AsStated == UpdateRefusal /\ UpdateStoresAsInsert

---------------------------------------------------------------------------
(* What a call leaves of its receiver (SpecChain).                         *)

\* the methods of a chain that take it by shared reference
SharedMethods == {"where"} \cup ReadMethods \cup UpdateMethods

\* C16: where, all, first, last, destroy and update leave the receiver as it was; the
\* chain where returns has the receiver's extra conditions followed by the receiver's
\* head, and the new condition as head; order_by sets the ordering of the receiver
\* (direction ASC when none is given), leaves its conditions, and returns a copy of the
\* receiver as changed
C16_Frame ==
  /\ call.m \in SharedMethods => recv = call.self
  /\ (call.m = "where" /\ ret.kind = "chain") =>
       LET self == Unwrap(call.self)
       IN  /\ ret.chain.table = self.table
           /\ ret.chain.extra_conditions =
                Append(self.extra_conditions, <<self.column, self.operator, self.value>>)
           /\ ret.chain.column = call.args[1]
           /\ ret.chain.value =
                FromNapiEither(IF call.args[3].t = "Undefined" THEN call.args[2]
                               ELSE call.args[3])
  /\ call.m = "order_by" =>
       LET self == Unwrap(call.self)
       IN  /\ Unwrap(recv).order_by =
                Some(<<call.args[1],
                       IF IsSome(call.args[2]) THEN Unwrap(call.args[2]) ELSE "ASC">>)
           /\ [Unwrap(recv) EXCEPT !.order_by = self.order_by] = self
           /\ ret = RetChain(Unwrap(recv))

\* order_by with no direction has been called on a chain of two conditions that was
\* ordered DESC
C16_Witness ==
  /\ call.m = "order_by"
  /\ call.args[2] = None
  /\ IsSome(Unwrap(call.self).order_by)
  /\ Unwrap(Unwrap(call.self).order_by)[2] = "DESC"
  /\ Len(Unwrap(call.self).extra_conditions) = 1
  /\ Unwrap(recv) # Unwrap(call.self)

---------------------------------------------------------------------------
(* SpecIn: the statements compiled from a chain of one IN condition.       *)

InOps == {"IN", "in", "In"}

\* the values callers pass with IN, each with the segments it is to bind
InCases ==
  { <<JsString("ann,bob"), <<"ann", "bob">>>>,
    <<JsString(" ann , bob "), <<"ann", "bob">>>>,
    <<JsString("a,,b"), <<"a", "", "b">>>>,
    <<JsString("x"), <<"x">>>>,
    <<JsString(""), <<"">>>>,
    <<JsString(","), <<"", "">>>>,
    <<JsNumber(12, 0), <<"12">>>>,
    <<JsNumber(-3, 0), <<"-3">>>> }

\* table.where("name", op, value)
TableWhereIn ==
  \E o \in InOps, x \in InCases :
    /\ recv' = None
    /\ ret' = RetOfChain(Table_where_(TableName, "name", FromNapiOpOrValue(JsString(o)),
                                      FromNapiValueOpt(x[1])))
    /\ call' = CalledOn("Table.where", None, <<"name", JsString(o), x[1]>>, NoData)
    /\ UNCHANGED dbVars

NextIn == TableWhereIn \/ Compile \/ CompileUpdate

SpecIn == Init /\ [][NextIn]_vars

\* the statements compiled with build_conditions
BuiltMethods == ReadMethods \cup {"update"}

\* C17: for a condition whose operator is IN in any case, the fragment is
\* <column> IN (?, ..., ?) with one placeholder per comma of the value plus one, and the
\* parameters are the segments, trimmed, as Text, from left to right, the empty ones
\* too; an integer value is first written in decimal and binds one Text
C17_InSplit ==
  (ret.kind = "stmt" /\ call.m \in BuiltMethods /\ Unwrap(recv).operator \in InOps) =>
    LET c == Unwrap(recv)
        x == CHOOSE x \in InCases : FromNapiEither(x[1]) = c.value
        segs == x[2]
        commas == IF x[1].t = "String" THEN CountChar(x[1].s, ",") ELSE 0
        clause == c.column \o " IN (" \o Join([k \in 1..Len(segs) |-> "?"], ", ") \o ")"
        where == AfterWhere(ret.stmt.sql)
    IN  /\ Len(segs) = commas + 1
        /\ SubSeq(where, 1, Len(clause)) = clause
        /\ \/ Len(where) = Len(clause)
           \/ SubSeq(where, Len(clause) + 1, Len(clause) + 10) = " ORDER BY "
        /\ WhereParams(call.m, call.data, ret.stmt) = [k \in 1..Len(segs) |-> SqlText(segs[k])]

\* all() has compiled the chain name in " ann , bob ": two trimmed segments
C17_Witness ==
  /\ ret.kind = "stmt"
  /\ call.m = "all"
  /\ Unwrap(recv).operator = "in"
  /\ Unwrap(recv).value = EitherA(" ann , bob ")
  /\ ret.stmt.params = <<SqlText("ann"), SqlText("bob")>>

---------------------------------------------------------------------------
(* C18: where starts from no ordering.                                     *)

HasOrderBy(sql) == \E k \in 1..(Len(sql) - 9) : SubSeq(sql, k, k + 9) = " ORDER BY "

OrderArg(direction) == IF IsSome(direction) THEN Unwrap(direction) ELSE "ASC"

\* C18: the chain where returns on a chain compiles, with all(), to a statement without
\* ORDER BY whatever ordering the receiver had; the chain order_by returns compiles to a
\* statement ending with the ordering asked for; and all() writes an ORDER BY exactly
\* when its receiver carries one
C18_WhereUnordered ==
  /\ (ret.kind = "chain" /\ call.m = "where") =>
        /\ ret.chain.order_by = None
        /\ ~HasOrderBy(AllStmt(ret.chain).sql)
  /\ (ret.kind = "chain" /\ call.m \in {"order_by", "Table.order_by"}) =>
        EndsWith(AllStmt(ret.chain).sql,
                 " ORDER BY " \o call.args[1] \o " " \o OrderArg(call.args[2]))
  /\ (ret.kind = "stmt" /\ call.m \in {"all", "lib.all"}) =>
        (HasOrderBy(ret.stmt.sql) <=> IsSome(Unwrap(recv).order_by))

\* where has been called on a chain that carried an ordering
C18_Witness ==
  /\ ret.kind = "chain"
  /\ call.m = "where"
  /\ IsSome(Unwrap(call.self).order_by)
  /\ NConds(ret.chain) >= 2

---------------------------------------------------------------------------
(* C19: the operations of a row object (SpecSeq).                          *)

\* the rows of rs the call src selected among: the rows its chain's conditions match
SelectedAmong(src, rs) ==
  CASE src.m \in {"first", "last"} -> Matching(rs, src.chain)
    [] src.m \in {"Table.first", "Table.last"} -> 1..Len(rs)
    [] src.m = "Table.find" -> {k \in 1..Len(rs) : SqlEq(rs[k]["id"], SqlInteger(src.id.i))}
    [] OTHER -> {}

\* the rows of rs whose position is not in hit, in their order
Kept(rs, hit) ==
  LET F[k \in 0..Len(rs)] ==
        IF k = 0 THEN <<>>
        ELSE IF k \in hit THEN F[k - 1] ELSE Append(F[k - 1], rs[k])
  IN  F[Len(rs)]

\* C19: destroy and update of the row object that first(), last() or find() returned act
\* on every row matching the conditions of the chain the row came from: destroy removes
\* them all and leaves the others, update sets the column in all of them and leaves the
\* others, whichever single row the call had returned
C19_RowOpsOnChain ==
  (Ret({"row.destroy", "row.update"}) /\ returned.out.kind = "ok") =>
    LET before == returned.before
        hit == SelectedAmong(prev.call, before)
    IN  /\ prev.call.m \in AttachMethods
        /\ prev.out.kind = "ok"
        /\ returned.call.m = "row.destroy" => rows = Kept(before, hit)
        /\ returned.call.m = "row.update" =>
             /\ Len(rows) = Len(before)
             /\ \A k \in 1..Len(before) :
                  IF k \in hit
                  THEN rows[k] = [before[k] EXCEPT
                                   !["age"] = UpdateValue(returned.call.data[1][2]).v]
                  ELSE rows[k] = before[k]

\* first() on a chain matching two rows returned one of them, and destroy on that row
\* object removed both
C19_Witness ==
  /\ Ret({"row.destroy"})
  /\ returned.out.kind = "ok"
  /\ prev.call.m = "first"
  /\ Cardinality(Matching(returned.before, prev.call.chain)) >= 2
  /\ Len(rows) = Len(returned.before) - 2

---------------------------------------------------------------------------
(* SpecFair: concurrent callers under fair scheduling. Every caller that   *)
(* holds the connection goes on running (weak fairness of the steps of its *)
(* method), and a caller waiting in lock() is handed the mutex at some     *)
(* point when it is released again and again (strong fairness of Acquire). *)

FairCalls ==
  {Op("Table.insert", NoChain, b, NoData, EitherB(0), "") :
     b \in {<<Pa1>>, <<Pa2, PaNope>>}}
    \cup {Op("all", ChainOld, NoBatch, NoData, EitherB(0), "")}
    \cup {Op("update", TableIdChain(TableName, EitherB(1)), NoBatch, d, EitherB(0), "") :
            d \in { <<<<"age", JsNull>>>> }}
    \cup {Op("Database.execute", NoChain, NoBatch, NoData, EitherB(0), q) :
            q \in {BeginSql, CommitSql}}

CallFair(p) == \E o \in FairCalls : Begin(p, o) /\ UNCHANGED prev

NextFair ==
  \E p \in Procs :
    CallFair(p) \/ Acquire(p) \/ Read(p) \/ Write(p) \/ InsertRow(p) \/ Commit(p)

\* the steps of a method between lock() and its return
Runs(p) == Read(p) \/ Write(p) \/ InsertRow(p) \/ Commit(p)

Fairness == \A p \in Procs : SF_vars(Acquire(p)) /\ WF_vars(Runs(p))

SpecFair == Init /\ [][NextFair]_vars /\ Fairness

---------------------------------------------------------------------------
(* C20: the lock discipline (SpecFair).                                    *)

\* a caller reaches lock() only when it does not hold the mutex
NoRelock == \A p \in Procs : pc[p] = "wait" => lock # p

\* the step with which a call of caller p returns
Returns(p) == returned' # NoCall /\ returned'.p = p

\* a returning call has dropped its guard, and it leaves a transaction open only if it
\* is execute running BEGIN, or the transaction was open when the call took the lock
\* (one an earlier BEGIN opened), never one of insert's own
ReturnsClean ==
  \A p \in Procs :
    Returns(p) =>
      /\ lock' # p
      /\ pc'[p] = "idle"
      /\ tx' # None =>
           \/ returned'.call.m = "Database.execute" /\ returned'.call.sql = BeginSql
           \/ pc[p] # "tx" /\ tx' = tx

====
